---- MODULE Spec2Model ----
(***************************************************************************)
(* Model of the PNS-to-Teams relay:                                        *)
(*   - origin-to-adaptive.js (src/unnamed/part_001): formatValue, indent,  *)
(*     originToPrettyLines, the option handling and the loose-text branch  *)
(*     of main;                                                            *)
(*   - adaptive-server.js (src/adaptive-server.js, environment variant,    *)
(*     and src/unnamed/part_000, config-file variant): the /qa, /prod and  *)
(*     /set-url handlers, appendLog and pruneOldLogs.                      *)
(*                                                                         *)
(* JavaScript values are records tagged by their typeof-like type `t`.     *)
(* Strings are sequences of one-character strings, so that length and      *)
(* slice are computed as the code computes them.  A rendered line is a     *)
(* record of the parts its template literal is assembled from.             *)
(***************************************************************************)
EXTENDS Integers, Sequences, FiniteSets, TLC

VARIABLES
    \* ---- converter (origin-to-adaptive.js main) ----
    cpc,        \* position of main: "opts" -> "render" -> "done"
    origin,     \* the parsed document: sequence of [key, val] in Object.keys order
    args,       \* parseArgs result: [indent, truncate], each a string or Undefined
    opts,       \* [indentSize, truncateLen] as built by main
    out,        \* result of originToPrettyLines: [err, lines]
    \* ---- truncation rule of formatValue, applied twice ----
    tpc, ts, tn, tm, t1, t2,
    \* ---- loose-text branch of main ----
    lpc, rawLines, li, lorigin, lerr,
    \* ---- relay (adaptive-server.js) ----
    now,        \* Date.now()
    logFile,    \* adaptive-log.jsonl: sequence of entries
    req,        \* per request: handler position and locals
    config,     \* process.env (environment variant) or adaptive-config.json
    variant,    \* "env" or "file"
    lastSet,    \* history: url of the last /set-url answered ok, or Undefined
    setResp,    \* history: status of the last /set-url response, 0 before any
    cfgBefore,  \* history: the configuration file before the last /set-url
    prunedAt    \* history: Date.now() of the last append-then-prune, -1 before any

convVars  == <<cpc, origin, args, opts, out>>
truncVars == <<tpc, ts, tn, tm, t1, t2>>
looseVars == <<lpc, rawLines, li, lorigin, lerr>>
relayVars == <<now, logFile, req, config, variant, lastSet, setResp, cfgBefore, prunedAt>>
vars == <<convVars, truncVars, looseVars, relayVars>>

----------------------------------------------------------------------------
(* JavaScript values *)

Undefined == [t |-> "undefined"]
Null      == [t |-> "null"]
Str(s)    == [t |-> "string", s |-> s]
Num(n)    == [t |-> "number", n |-> n]
NaN       == [t |-> "number", nan |-> TRUE]
Dec(n, f) == [t |-> "number", n |-> n, frac |-> f]   \* n.f, a non-integer literal
Bool(b)   == [t |-> "boolean", b |-> b]
Obj(f)    == [t |-> "object", fields |-> f]
Arr(xs)   == [t |-> "array", items |-> xs]

IsNaN(v) == v.t = "number" /\ "nan" \in DOMAIN v

\* ToBoolean: the test of `if (x)`, `x || y`, `val && ...`
Truthy(v) ==
    CASE v.t = "undefined" -> FALSE
      [] v.t = "null"      -> FALSE
      [] v.t = "string"    -> Len(v.s) > 0
      [] v.t = "number"    -> /\ ~IsNaN(v)
                              /\ \/ v.n # 0
                                 \/ /\ "frac" \in DOMAIN v
                                    /\ \E i \in 1..Len(v.frac) : v.frac[i] # "0"
      [] v.t = "boolean"   -> v.b
      [] OTHER             -> TRUE

\* Object.keys(origin) for a document held as a sequence of entries
Keys(doc) == [i \in 1..Len(doc) |-> doc[i].key]

HasOwn(doc, k) == \E i \in 1..Len(doc) : doc[i].key = k

\* origin[key]: undefined when the key is absent
Get(doc, k) ==
    IF HasOwn(doc, k)
    THEN doc[CHOOSE i \in 1..Len(doc) : doc[i].key = k].val
    ELSE Undefined

SeqContains(s, x) == \E i \in 1..Len(s) : s[i] = x

RECURSIVE Flatten(_)
Flatten(ss) == IF ss = <<>> THEN <<>> ELSE Head(ss) \o Flatten(Tail(ss))

----------------------------------------------------------------------------
(* formatValue, src/unnamed/part_001:75-91 *)

Ellipsis == <<".", ".", ".">>

\* s.slice(0, n) for 0 <= n
Slice(s, n) == SubSeq(s, 1, IF n < Len(s) THEN n ELSE Len(s))

\* a faulty variant: cuts a string that is exactly as long as the limit
TruncateAtLimit(s, truncateLen) ==
    IF ~IsNaN(truncateLen) /\ truncateLen.n > 0 /\ Len(s) >= truncateLen.n
    THEN Slice(s, truncateLen.n) \o Ellipsis
    ELSE s
\* lines 80-82: the truncation rule, on a string and a numeric limit
Truncate(s, truncateLen) ==
    IF ~IsNaN(truncateLen) /\ truncateLen.n > 0 /\ Len(s) > truncateLen.n
    THEN Slice(s, truncateLen.n) \o Ellipsis
    ELSE s

formatValue(val, truncateLen) ==
    CASE val.t = "string"  -> <<"\"">> \o Truncate(val.s, truncateLen) \o <<"\"">>
      [] val.t = "number"  -> <<IF IsNaN(val) THEN "NaN" ELSE ToString(val.n)>>
      [] val.t = "boolean" -> <<IF val.b THEN "true" ELSE "false">>
      [] val.t = "array"   -> <<"[Array]">>
      [] val.t = "object"  -> <<"{Object}">>
      [] OTHER             -> <<"null">>

----------------------------------------------------------------------------
(* indent, src/unnamed/part_001:96-98.  String.prototype.repeat converts   *)
(* its count with ToIntegerOrInfinity (NaN becomes 0) and throws a         *)
(* RangeError for a negative count.  The result is the number of NBSP.     *)

indent(nbspCount) ==
    IF IsNaN(nbspCount) THEN [err |-> "none", n |-> 0]
    ELSE IF nbspCount.n < 0 THEN [err |-> "RangeError", n |-> 0]
    ELSE [err |-> "none", n |-> nbspCount.n]

\* indentSize + 2 on numbers
Plus2(x) == IF IsNaN(x) THEN NaN ELSE Num(x.n + 2)

----------------------------------------------------------------------------
(* originToPrettyLines, src/unnamed/part_001:105-183 *)

input2Order ==
    << "msgVersion", "clientId", "eventTimeMillis", "subscriptionNotification",
       "environmenmt", "marketCode" >>

preferredOrder ==
    << "msgVersion", "clientId", "productId", "messageType", "purchaseId",
       "developerPayload", "purchaseTimeMillis", "purchaseState",
       "price", "priceCurrencyCode", "productName",
       "paymentTypeList", "billingKey", "isTestMdn",
       "purchaseToken", "environment", "marketCode", "signature" >>

DeepSubKeys == {"version", "productId", "notificationType", "purchaseToken"}

BraceLine(text) == [kind |-> "brace", text |-> text]
EntryLine(ind, key, fv, comma) ==
    [kind |-> "entry", ind |-> ind, key |-> key, fv |-> fv, comma |-> comma]
OpenLine(ind, key, bracket) ==
    [kind |-> "open", ind |-> ind, key |-> key, bracket |-> bracket]
CloseLine(ind, bracket) ==
    [kind |-> "close", ind |-> ind, bracket |-> bracket, comma |-> TRUE]
SubLine(ind, key, fv, comma) ==
    [kind |-> "sub", ind |-> ind, key |-> key, fv |-> fv, comma |-> comma]
ItemLine(ind, pm, amt, comma) ==
    [kind |-> "item", ind |-> ind, pm |-> pm, amt |-> amt, comma |-> comma]

\* Object.keys(val) of the nested value: field names, or the indices of an array
SubKeys(val) ==
    IF val.t = "array"
    THEN [i \in 1..Len(val.items) |-> ToString(i - 1)]
    ELSE Keys(val.fields)

\* val[subKey] for the idx-th key (1-based here)
SubVal(val, idx) ==
    IF val.t = "array" THEN val.items[idx] ELSE val.fields[idx].val

\* lines 129-141: the subscriptionNotification block
SubscriptionBlock(key, val, ind, ind2, truncateLen) ==
    LET subKeys == SubKeys(val) IN
    << OpenLine(ind, key, "{") >>
    \o [idx \in 1..Len(subKeys) |->
          SubLine(IF subKeys[idx] \in DeepSubKeys THEN ind2 + 2 ELSE ind2,
                  subKeys[idx],
                  formatValue(SubVal(val, idx), truncateLen),
                  idx < Len(subKeys))]
    \o << CloseLine(ind, "}") >>

\* lines 125-147: what one key of input2Order contributes
SubscriptionLines(doc, key, ind, ind2, truncateLen) ==
    IF ~HasOwn(doc, key) THEN <<>>
    ELSE LET val == Get(doc, key) IN
         IF key = "subscriptionNotification" /\ val.t \in {"object", "array"}
         THEN SubscriptionBlock(key, val, ind, ind2, truncateLen)
         ELSE << EntryLine(ind, key, formatValue(val, truncateLen),
                           key # input2Order[Len(input2Order)]) >>

\* item.paymentMethod / item.amount: a property read of null or undefined throws
ItemThrows(item) == item.t \in {"null", "undefined"}
ItemGet(item, field) ==
    IF item.t = "object" THEN Get(item.fields, field) ELSE Undefined

\* a faulty variant: the block without its closing line
ArrayBlockNoClose(key, val, ind, ind2, truncateLen) ==
    << OpenLine(ind, key, "[") >>
    \o [idx \in 1..Len(val.items) |->
          ItemLine(ind2 + 2,
                   formatValue(ItemGet(val.items[idx], "paymentMethod"), truncateLen),
                   formatValue(ItemGet(val.items[idx], "amount"), truncateLen),
                   idx < Len(val.items))]
\* lines 165-172: the paymentTypeList block
ArrayBlock(key, val, ind, ind2, truncateLen) ==
    << OpenLine(ind, key, "[") >>
    \o [idx \in 1..Len(val.items) |->
          ItemLine(ind2 + 2,
                   formatValue(ItemGet(val.items[idx], "paymentMethod"), truncateLen),
                   formatValue(ItemGet(val.items[idx], "amount"), truncateLen),
                   idx < Len(val.items))]
    \o << CloseLine(ind, "]") >>

\* a faulty variant: the keys as they come
OrderedInputOrder(doc) == Keys(doc)
\* lines 157-161: preferred keys that are present, then the other keys
Ordered(doc) ==
    LET keys == Keys(doc) IN
    SelectSeq(preferredOrder, LAMBDA k : SeqContains(keys, k))
    \o SelectSeq(keys, LAMBDA k : ~SeqContains(preferredOrder, k))

\* lines 162-178: what one key of `ordered` contributes
GenericLines(doc, ordered, key, ind, ind2, truncateLen) ==
    LET val == Get(doc, key) IN
    IF key = "paymentTypeList" /\ val.t = "array"
    THEN ArrayBlock(key, val, ind, ind2, truncateLen)
    ELSE << EntryLine(ind, key, formatValue(val, truncateLen),
                      key # ordered[Len(ordered)]) >>

\* line 116: the branch taken
IsSubscription(doc) == Truthy(Get(doc, "subscriptionNotification"))

\* the forEach of lines 166-171 throws a TypeError on a null item
GenericThrows(doc) ==
    LET val == Get(doc, "paymentTypeList") IN
    val.t = "array" /\ \E i \in 1..Len(val.items) : ItemThrows(val.items[i])

originToPrettyLines(doc, indentSize, truncateLen) ==
    LET ind  == indent(indentSize)
        ind2 == indent(Plus2(indentSize))
    IN
    IF ind.err # "none" THEN [err |-> ind.err, lines |-> <<>>]
    ELSE IF ind2.err # "none" THEN [err |-> ind2.err, lines |-> <<>>]
    ELSE IF IsSubscription(doc)
    THEN [err |-> "none",
          lines |-> << BraceLine("{") >>
                    \o Flatten([i \in 1..Len(input2Order) |->
                           SubscriptionLines(doc, input2Order[i], ind.n, ind2.n,
                                             truncateLen)])
                    \o << BraceLine("}") >>]
    ELSE IF GenericThrows(doc) THEN [err |-> "TypeError", lines |-> <<>>]
    ELSE LET ordered == Ordered(doc) IN
         [err |-> "none",
          lines |-> << BraceLine("{") >>
                    \o Flatten([i \in 1..Len(ordered) |->
                           GenericLines(doc, ordered, ordered[i], ind.n, ind2.n,
                                        truncateLen)])
                    \o << BraceLine("}") >>]

----------------------------------------------------------------------------
(* Option handling of main, src/unnamed/part_001:274-276, 283-285, 313-314 *)

DefaultIndent == 5
DefaultTruncate == 0

DigitValue(c) ==
    CASE c = "0" -> 0 [] c = "1" -> 1 [] c = "2" -> 2 [] c = "3" -> 3
      [] c = "4" -> 4 [] c = "5" -> 5 [] c = "6" -> 6 [] c = "7" -> 7
      [] c = "8" -> 8 [] c = "9" -> 9 [] OTHER -> -1

IsDigits(s) == Len(s) > 0 /\ \A i \in 1..Len(s) : DigitValue(s[i]) >= 0

RECURSIVE DigitsValue(_)
DigitsValue(s) ==
    IF s = <<>> THEN 0
    ELSE 10 * DigitsValue(SubSeq(s, 1, Len(s) - 1)) + DigitValue(s[Len(s)])

\* Number(v) for a number or a string of the characters drawn here (digits,
\* "-", letters): the empty string is 0, an optionally signed run of digits
\* is its value, anything else is NaN
ToNumber(v) ==
    IF v.t = "number" THEN v
    ELSE IF v.s = <<>> THEN Num(0)
    ELSE IF IsDigits(v.s) THEN Num(DigitsValue(v.s))
    ELSE IF Head(v.s) = "-" /\ IsDigits(Tail(v.s)) THEN Num(0 - DigitsValue(Tail(v.s)))
    ELSE NaN

\* Number(args.x || dflt)
OptionNumber(arg, dflt) == ToNumber(IF Truthy(arg) THEN arg ELSE Num(dflt))

BuildOpts ==
    /\ cpc = "opts"
    /\ opts' = [indentSize  |-> OptionNumber(args.indent, DefaultIndent),
                truncateLen |-> OptionNumber(args.truncate, DefaultTruncate)]
    /\ cpc' = "render"
    /\ UNCHANGED <<origin, args, out, truncVars, looseVars, relayVars>>

\* buildAdaptiveMessage(origin, opts) -> originToPrettyLines, lines 322, 238
Render ==
    /\ cpc = "render"
    /\ out' = originToPrettyLines(origin, opts.indentSize, opts.truncateLen)
    /\ cpc' = "done"
    /\ UNCHANGED <<origin, args, opts, truncVars, looseVars, relayVars>>

----------------------------------------------------------------------------
(* Inputs of the converter *)

MaxKeys == 3
MaxItems == 2

SampleText == <<"a", "b", "c", "d">>
PaymentItem == Obj(<< [key |-> "paymentMethod", val |-> Str(SampleText)],
                      [key |-> "amount", val |-> Num(100)] >>)
Notification == Obj(<< [key |-> "version", val |-> Str(SampleText)],
                       [key |-> "state", val |-> Num(1)] >>)

SeqsUpTo(S, n) == UNION {[1..k -> S] : k \in 0..n}

ValuesFor(k) ==
    CASE k = "paymentTypeList" ->
            {Arr(xs) : xs \in SeqsUpTo({PaymentItem, Null}, MaxItems)}
            \cup {Str(SampleText)}
      [] k = "subscriptionNotification" ->
            {Notification, Arr(<<Null>>), Str(SampleText), Null}
      [] k = "eventTimeMillis" -> {Num(7)}
      [] OTHER -> {Str(SampleText)}

KeyPool == {"msgVersion", "eventTimeMillis", "paymentTypeList",
            "subscriptionNotification", "environment", "marketCode"}

Entries == UNION {{[key |-> k, val |-> v] : v \in ValuesFor(k)} : k \in KeyPool}

\* documents: entries with distinct keys, in any iteration order
Docs ==
    {d \in SeqsUpTo(Entries, MaxKeys) :
        \A i, j \in 1..Len(d) : d[i].key = d[j].key => i = j}

ValidOptionArgs == {Undefined, Str(<<"2">>)}
OptionArgs == {Undefined, Str(<<>>), Str(<<"2">>), Str(<<"x">>), Str(<<"-", "3">>)}

ConvInit(A) ==
    /\ cpc = "opts"
    /\ origin \in Docs
    /\ args \in [indent : A, truncate : A]
    /\ opts = [indentSize |-> Num(0), truncateLen |-> Num(0)]
    /\ out = [err |-> "none", lines |-> <<>>]

ConvIdle ==
    /\ cpc = "off" /\ origin = <<>> /\ args = <<>>
    /\ opts = <<>> /\ out = <<>>

----------------------------------------------------------------------------
(* The truncation rule applied to its own result *)

MaxStrLen == 4
MaxLimit == 5

TruncFirst ==
    /\ tpc = "first"
    /\ t1' = Truncate(ts, Num(tn))
    /\ tpc' = "second"
    /\ UNCHANGED <<ts, tn, tm, t2, convVars, looseVars, relayVars>>

TruncSecond ==
    /\ tpc = "second"
    /\ t2' = Truncate(t1, Num(tm))
    /\ tpc' = "done"
    /\ UNCHANGED <<ts, tn, tm, t1, convVars, looseVars, relayVars>>

TruncInit ==
    /\ tpc = "first"
    /\ ts \in SeqsUpTo({"a", "."}, MaxStrLen)
    /\ tn \in 0..MaxLimit
    /\ tm \in 0..MaxLimit
    /\ t1 = <<>> /\ t2 = <<>>

TruncIdle ==
    /\ tpc = "off" /\ ts = <<>> /\ tn = 0 /\ tm = 0 /\ t1 = <<>> /\ t2 = <<>>

LooseIdle ==
    /\ lpc = "off" /\ rawLines = <<>> /\ li = 0 /\ lorigin = <<>> /\ lerr = "none"

RelayIdle ==
    /\ now = 0 /\ logFile = <<>> /\ req = <<>> /\ config = <<>>
    /\ variant = "off" /\ lastSet = Undefined /\ setResp = 0
    /\ cfgBefore = <<>> /\ prunedAt = -1

----------------------------------------------------------------------------
(* Specifications *)

NextConv == BuildOpts \/ Render

\* the renderer, called with well-formed option values
InitRender == ConvInit(ValidOptionArgs) /\ TruncIdle /\ LooseIdle /\ RelayIdle
SpecRender == InitRender /\ [][NextConv]_vars

\* main with any option strings
InitMain == ConvInit(OptionArgs) /\ TruncIdle /\ LooseIdle /\ RelayIdle
SpecMain == InitMain /\ [][NextConv]_vars

NextTrunc == TruncFirst \/ TruncSecond
InitTrunc == TruncInit /\ ConvIdle /\ LooseIdle /\ RelayIdle
SpecTrunc == InitTrunc /\ [][NextTrunc]_vars

----------------------------------------------------------------------------
(* Properties of originToPrettyLines *)

Rendered == cpc = "done" /\ out.err = "none"

\* the top-level keys in the order their lines were emitted: a scalar line
\* or the opening line of a block carries the key
TopLines == SelectSeq(out.lines, LAMBDA l : l.kind \in {"entry", "open"})
RenderedKeys == [i \in 1..Len(TopLines) |-> TopLines[i].key]

IndexIn(s, x) == CHOOSE i \in 1..Len(s) : s[i] = x

PaymentArray(doc) == Get(doc, "paymentTypeList").t = "array"

\* C1: under the generic policy every top-level key of the input is
\* rendered exactly once (the paymentTypeList array as a block, every other
\* key as a scalar line), the keys of the preference list come first in
\* listed order and the other keys follow in the input's iteration order.
C1_GenericKeyCoverage ==
    (Rendered /\ ~IsSubscription(origin)) =>
        /\ Len(RenderedKeys) = Len(origin)
        /\ \A i \in 1..Len(origin) :
              Cardinality({j \in 1..Len(TopLines) :
                              TopLines[j].key = origin[i].key}) = 1
        /\ \A j \in 1..Len(TopLines) :
              TopLines[j].kind = "open"
                 <=> (TopLines[j].key = "paymentTypeList" /\ PaymentArray(origin))
        /\ \A i, j \in 1..Len(RenderedKeys) :
              i < j =>
                LET a == RenderedKeys[i]
                    b == RenderedKeys[j]
                    pa == SeqContains(preferredOrder, a)
                    pb == SeqContains(preferredOrder, b)
                IN /\ pb => pa
                   /\ (pa /\ pb) => IndexIn(preferredOrder, a) < IndexIn(preferredOrder, b)
                   /\ (~pa /\ ~pb) => IndexIn(Keys(origin), a) < IndexIn(Keys(origin), b)

\* a generic document whose first key is unlisted, followed by two listed
\* keys given out of listed order, one of them the payment array
C1_Witness ==
    /\ Rendered
    /\ ~IsSubscription(origin)
    /\ Keys(origin) = <<"eventTimeMillis", "marketCode", "paymentTypeList">>
    /\ PaymentArray(origin)
    /\ RenderedKeys = <<"paymentTypeList", "marketCode", "eventTimeMillis">>

\* the precedence list of the subscription policy as documented
PolicyAOrder ==
    << "msgVersion", "clientId", "eventTimeMillis", "subscriptionNotification",
       "environment", "marketCode" >>

\* C2: when subscriptionNotification is a nested document, the rendered
\* top-level keys are exactly the input keys of the documented list, once
\* each and in listed order.
C2_SubscriptionKeyCoverage ==
    (Rendered /\ Get(origin, "subscriptionNotification").t = "object") =>
        RenderedKeys = SelectSeq(PolicyAOrder, LAMBDA k : HasOwn(origin, k))

\* C3: a scalar entry line ends with a comma if and only if it is not the
\* last entry rendered.
C3_CommaOnlyBeforeLast ==
    Rendered =>
        \A i \in 1..Len(TopLines) :
            TopLines[i].kind = "entry" =>
                (TopLines[i].comma <=> i < Len(TopLines))

\* C4 as stated: the line count is the number of top-level keys plus the
\* number of expanded paymentTypeList items plus two.
C4_LineCountAsStated ==
    Rendered =>
        Len(out.lines) =
            Len(origin)
            + Len(SelectSeq(out.lines, LAMBDA l : l.kind = "item"))
            + 2

\* the keys the subscription branch looks up
SubscriptionKeyCount(doc) ==
    Cardinality({i \in 1..Len(input2Order) : HasOwn(doc, input2Order[i])})

\* C4 amended: an expanded block adds its closing line, and the subscription
\* policy counts only the keys it renders and the sub-keys of the nested
\* value.
C4_LineCount ==
    Rendered =>
        Len(out.lines) =
            IF IsSubscription(origin)
            THEN LET sub == Get(origin, "subscriptionNotification") IN
                 SubscriptionKeyCount(origin)
                 + (IF sub.t = "object" THEN Len(sub.fields) + 1
                    ELSE IF sub.t = "array" THEN Len(sub.items) + 1 ELSE 0)
                 + 2
            ELSE Len(origin)
                 + (IF PaymentArray(origin)
                    THEN Len(Get(origin, "paymentTypeList").items) + 1 ELSE 0)
                 + 2

\* a generic document of three keys, one of them a two-item payment array:
\* 3 keys + 2 items + 1 closing line + 2 braces
C4_Witness ==
    /\ Rendered
    /\ ~IsSubscription(origin)
    /\ PaymentArray(origin)
    /\ Len(Get(origin, "paymentTypeList").items) = 2
    /\ Len(origin) = 3
    /\ Len(out.lines) = 8

\* C6: an option string that is not a non-negative integer behaves as the
\* option's default: the conversion does not fail on it and renders as with
\* indentWidth 5, truncateLength 0.
ValidOptionString(arg) ==
    arg.t = "string" /\ IsDigits(arg.s)

EffectiveOption(arg, dflt) ==
    IF ValidOptionString(arg) THEN Num(DigitsValue(arg.s)) ELSE Num(dflt)

C6_InvalidOptionsDefault ==
    cpc = "done" =>
        out = originToPrettyLines(origin,
                  EffectiveOption(args.indent, DefaultIndent),
                  EffectiveOption(args.truncate, DefaultTruncate))

----------------------------------------------------------------------------
(* Properties of the truncation rule *)

\* C5 as stated: truncating with limit n and again with any limit m >= n
\* gives the result of the first truncation.
C5_IdempotentAsStated ==
    (tpc = "done" /\ 0 < tn /\ tn <= tm) => t2 = t1

\* C5 amended: it does for m = n and for m >= n + 3 (the first result is at
\* most n + 3 long).
C5_Idempotent ==
    (tpc = "done" /\ 0 < tn /\ (tm = tn \/ tm >= tn + 3)) => t2 = t1

\* a string that was cut, cut again with the same limit
C5_Witness ==
    /\ tpc = "done" /\ 0 < tn /\ tm = tn
    /\ Len(ts) > tn
    /\ t1 = Slice(ts, tn) \o Ellipsis
    /\ t2 = t1

----------------------------------------------------------------------------
(* The loose-text branch of main, src/unnamed/part_001:292-311.  A line is *)
(* a sequence of characters; the regular expressions are evaluated on it.  *)

Letters ==
    {"a", "b", "c", "d", "e", "f", "g", "h", "i", "j", "k", "l", "m",
     "n", "o", "p", "q", "r", "s", "t", "u", "v", "w", "x", "y", "z",
     "A", "B", "C", "D", "E", "F", "G", "H", "I", "J", "K", "L", "M",
     "N", "O", "P", "Q", "R", "S", "T", "U", "V", "W", "X", "Y", "Z"}

Digits == {"0", "1", "2", "3", "4", "5", "6", "7", "8", "9"}
\* \s, of the characters that can occur inside a line
Spaces == {" ", "\t"}
IsSpace(c) == c \in Spaces
\* [\w.-]
KeyChars == Letters \cup Digits \cup {"_", ".", "-"}

\* the length of the longest prefix of s made of characters of the set C
PrefixLen(s, C) ==
    IF \A i \in 1..Len(s) : s[i] \in C THEN Len(s)
    ELSE (CHOOSE i \in 1..Len(s) : s[i] \notin C /\ \A j \in 1..(i - 1) : s[j] \in C) - 1

Drop(s, n) == SubSeq(s, n + 1, Len(s))

RECURSIVE TrimEnd(_)
TrimEnd(s) ==
    IF s # <<>> /\ IsSpace(s[Len(s)]) THEN TrimEnd(SubSeq(s, 1, Len(s) - 1)) ELSE s

\* l.trim().length > 0
NonBlank(l) == \E i \in 1..Len(l) : ~IsSpace(l[i])

DropQuote(s) == IF s # <<>> /\ Head(s) = "\"" THEN Tail(s) ELSE s

\* line.match(/^\s*"?([\w.-]+)"?\s*:\s*(.+?)\s*$/) on a non-blank line:
\* [ok, k, v] with the two groups.  The key is the longest run of key
\* characters (no shorter run can be followed by a quote, a space or a
\* colon); the value is what follows the colon, trimmed.  When only spaces
\* follow the colon, (.+?) takes one of them.
MatchLine(line) ==
    LET a    == DropQuote(Drop(line, PrefixLen(line, Spaces)))
        klen == PrefixLen(a, KeyChars)
        b    == DropQuote(Drop(a, klen))
        c    == Drop(b, PrefixLen(b, Spaces))
        rest == IF c # <<>> /\ Head(c) = ":" THEN Tail(c) ELSE <<>>
        body == TrimEnd(Drop(rest, PrefixLen(rest, Spaces)))
    IN
    IF klen = 0 \/ c = <<>> \/ Head(c) # ":" \/ rest = <<>>
    THEN [ok |-> FALSE, k |-> <<>>, v |-> <<>>]
    ELSE [ok |-> TRUE, k |-> SubSeq(a, 1, klen),
          v |-> IF body = <<>> THEN <<" ">> ELSE body]

\* toLowerCase on the letters of "true" and "false"
Lower(c) ==
    CASE c = "T" -> "t" [] c = "R" -> "r" [] c = "U" -> "u" [] c = "E" -> "e"
      [] c = "F" -> "f" [] c = "A" -> "a" [] c = "L" -> "l" [] c = "S" -> "s"
      [] OTHER -> c
LowerSeq(s) == [i \in 1..Len(s) |-> Lower(s[i])]

WordTrue == <<"t", "r", "u", "e">>
WordFalse == <<"f", "a", "l", "s", "e">>

\* /^\d+(\.\d+)?$/
IsNumberLiteral(s) ==
    LET ilen == PrefixLen(s, Digits) IN
    /\ ilen > 0
    /\ \/ ilen = Len(s)
       \/ /\ s[ilen + 1] = "."
          /\ IsDigits(Drop(s, ilen + 1))

NumberLiteral(s) ==
    LET ilen == PrefixLen(s, Digits) IN
    IF ilen = Len(s) THEN Num(DigitsValue(s))
    ELSE Dec(DigitsValue(SubSeq(s, 1, ilen)), Drop(s, ilen + 1))

\* lines 301-305: strip one trailing comma, then cast
Coerce(m2) ==
    LET v == IF m2[Len(m2)] = "," THEN SubSeq(m2, 1, Len(m2) - 1) ELSE m2 IN
    IF LowerSeq(v) \in {WordTrue, WordFalse} THEN Bool(LowerSeq(v) = WordTrue)
    ELSE IF IsNumberLiteral(v) THEN NumberLiteral(v)
    ELSE LET w == DropQuote(v) IN
         Str(IF w # <<>> /\ w[Len(w)] = "\"" THEN SubSeq(w, 1, Len(w) - 1) ELSE w)

\* origin[k] = v: a present key keeps its place
Put(doc, k, v) ==
    IF HasOwn(doc, k)
    THEN [i \in 1..Len(doc) |-> IF doc[i].key = k THEN [key |-> k, val |-> v] ELSE doc[i]]
    ELSE Append(doc, [key |-> k, val |-> v])

\* (origin['raw'] || []).concat(line): Array.prototype.concat on an array,
\* String.prototype.concat on a non-empty string, and no concat method on a
\* number or on true
RawConcat(cur, line) ==
    LET base == IF Truthy(cur) THEN cur ELSE Arr(<<>>) IN
    CASE base.t = "array"  -> [err |-> "none", val |-> Arr(Append(base.items, Str(line)))]
      [] base.t = "string" -> [err |-> "none", val |-> Str(base.s \o line)]
      [] OTHER             -> [err |-> "TypeError", val |-> Undefined]

\* line 294: split into lines, keep the non-blank ones
SplitLines ==
    /\ lpc = "split"
    /\ rawLines' = SelectSeq(rawLines, NonBlank)
    /\ li' = 1
    /\ lpc' = IF SelectSeq(rawLines, NonBlank) = <<>> THEN "done" ELSE "loop"
    /\ UNCHANGED <<lorigin, lerr, convVars, truncVars, relayVars>>

Advance == IF li = Len(rawLines) THEN "done" ELSE "loop"

\* lines 299-306: the line matches
ParseMatched ==
    /\ lpc = "loop"
    /\ LET m == MatchLine(rawLines[li]) IN
       /\ m.ok
       /\ lorigin' = Put(lorigin, m.k, Coerce(m.v))
    /\ li' = li + 1
    /\ lpc' = Advance
    /\ UNCHANGED <<rawLines, lerr, convVars, truncVars, relayVars>>

\* lines 307-310: it does not
ParseUnmatched ==
    /\ lpc = "loop"
    /\ ~MatchLine(rawLines[li]).ok
    /\ LET r == RawConcat(Get(lorigin, <<"r", "a", "w">>), rawLines[li]) IN
       IF r.err = "none"
       THEN /\ lorigin' = Put(lorigin, <<"r", "a", "w">>, r.val)
            /\ li' = li + 1
            /\ lpc' = Advance
            /\ lerr' = lerr
       ELSE /\ lerr' = r.err
            /\ lpc' = "threw"
            /\ UNCHANGED <<lorigin, li>>
    /\ UNCHANGED <<rawLines, convVars, truncVars, relayVars>>

MaxLines == 3

SampleLines ==
    { <<"r", "a", "w", ":", " ", "5">>,
      <<"r", "a", "w", ":", " ", "t", "r", "u", "e">>,
      <<"r", "a", "w", ":", " ", "x">>,
      <<"r", "a", "w", ":", " ", "0">>,
      <<"\"", "k", "\"", ":", " ", "\"", "v", "\"", ",">>,
      <<"b", "a", "d", "l", "i", "n", "e">>,
      <<"n", "o", " ", "k", "e", "y">>,
      <<" ">> }

LooseInit ==
    /\ lpc = "split"
    /\ rawLines \in SeqsUpTo(SampleLines, MaxLines)
    /\ li = 0
    /\ lorigin = <<>>
    /\ lerr = "none"

NextLoose == SplitLines \/ ParseMatched \/ ParseUnmatched
InitLoose == LooseInit /\ ConvIdle /\ TruncIdle /\ RelayIdle
SpecLoose == InitLoose /\ [][NextLoose]_vars

\* the lines of the input that do not match, in encounter order
Unmatched == SelectSeq(SelectSeq(rawLines, NonBlank), LAMBDA l : ~MatchLine(l).ok)

\* C7: the loose-text parser never raises an error, and when it is done the
\* sequence under 'raw' holds every non-matching line, verbatim and in
\* encounter order.
C7_LooseAlwaysSucceeds ==
    /\ lpc # "threw"
    /\ (lpc = "done" /\ Unmatched # <<>>) =>
          Get(lorigin, <<"r", "a", "w">>)
             = Arr([i \in 1..Len(Unmatched) |-> Str(Unmatched[i])])

----------------------------------------------------------------------------
(* The relay: src/adaptive-server.js (configuration from the environment)  *)
(* and src/unnamed/part_000 (configuration from adaptive-config.json).     *)
(* A handler runs without interruption up to its await and from the        *)
(* resumption to its end; handlers of different requests interleave only   *)
(* at the awaited delivery.  Time is counted in units of which OneWeek     *)
(* make the code's 7 * 24 * 60 * 60 * 1000 ms.                             *)

OneWeek == 2
MaxTime == 3
MaxReqs == 2

Reqs == 1..MaxReqs

UrlQA   == Str(<<"q">>)
UrlPROD == Str(<<"p">>)
UrlNew  == Str(<<"n">>)

\* loadConfig: adaptive-server.js:17-23 reads process.env,
\* part_000:14-16 parses the configuration file
loadConfig ==
    IF variant = "env"
    THEN << [key |-> "targetUrlQA",   val |-> Get(config, "TARGET_URL_QA")],
            [key |-> "targetUrlPROD", val |-> Get(config, "TARGET_URL_PROD")] >>
    ELSE config

\* const { targetUrlQA } = loadConfig()  /  const { targetUrlPROD } = loadConfig()
TargetUrl(route) ==
    Get(loadConfig, IF route = "qa" THEN "targetUrlQA" ELSE "targetUrlPROD")

\* appendLog: one line per entry.  `req` is not a field of the entry: it
\* records which request wrote the line.
appendLog(log, entry) == Append(log, entry)

\* a faulty variant: drops the line that is exactly one week old
pruneKeepsYounger(log, t) == SelectSeq(log, LAMBDA e : e.timestamp > t - OneWeek)
\* pruneOldLogs: keep the lines whose timestamp >= Date.now() - one week
pruneOldLogs(log, t) == SelectSeq(log, LAMBDA e : e.timestamp >= t - OneWeek)

\* a faulty variant: always 200
ResponseStatusOk(error) == 200
\* lines 88-92: 500 with the error, else 200
ResponseStatus(error) == IF Truthy(error) THEN 500 ELSE 200

ErrConvert == Str(<<"c">>)   \* err.message of a failed conversion
ErrDeliver == Str(<<"d">>)   \* err.message of a failed delivery

IdleReq ==
    [pc |-> "idle", route |-> "", receivedAt |-> 0, target |-> Undefined,
     error |-> Null, status |-> 0, trace |-> <<>>, setSeen |-> Undefined]

\* lines 80-92 of a handler: log, prune, respond
Finish(r, h, error) ==
    /\ logFile' = pruneOldLogs(
                    appendLog(logFile, [timestamp |-> h.receivedAt, req |-> r,
                                        error |-> error]),
                    now)
    /\ prunedAt' = now
    /\ req' = [req EXCEPT ![r] =
                 [h EXCEPT !.pc = "done", !.error = error,
                           !.status = ResponseStatus(error),
                           !.trace = h.trace \o <<"log", "respond">>]]

\* POST /qa or /prod arrives and the converter fails: lines 68-72, 77-92
ReceiveConvertFails(r, route) ==
    /\ variant # "off"
    /\ req[r].pc = "idle"
    /\ \A q \in Reqs : q < r => req[q].pc # "idle"
    /\ Finish(r, [req[r] EXCEPT !.route = route, !.receivedAt = now,
                                !.trace = <<"convert">>,
                                !.setSeen = lastSet],
              ErrConvert)
    /\ UNCHANGED <<now, config, variant, lastSet, setResp, cfgBefore,
                   convVars, truncVars, looseVars>>

\* POST /qa or /prod arrives, the converter succeeds and the delivery is
\* started: lines 68-75, up to the await
ReceiveAndSend(r, route) ==
    /\ variant # "off"
    /\ req[r].pc = "idle"
    /\ \A q \in Reqs : q < r => req[q].pc # "idle"
    /\ req' = [req EXCEPT ![r] =
                 [@ EXCEPT !.pc = "awaiting", !.route = route,
                           !.receivedAt = now,
                           !.target = TargetUrl(route),
                           !.trace = <<"convert", "deliver">>,
                           !.setSeen = lastSet]]
    /\ UNCHANGED <<now, logFile, config, variant, lastSet, setResp, cfgBefore,
                   prunedAt, convVars, truncVars, looseVars>>

\* the awaited axios.post settles: lines 76-92.  A delivery to an undefined
\* url can only fail.
DeliverySettles(r, ok) ==
    /\ req[r].pc = "awaiting"
    /\ ok => req[r].target.t = "string"
    /\ Finish(r, req[r], IF ok THEN Null ELSE ErrDeliver)
    /\ UNCHANGED <<now, config, variant, lastSet, setResp, cfgBefore,
                   convVars, truncVars, looseVars>>

\* POST /set-url, part_000:118-123
SetUrl(url) ==
    /\ variant = "file"
    /\ cfgBefore' = config
    /\ IF ~Truthy(url) \/ url.t # "string"
       THEN /\ setResp' = 400
            /\ UNCHANGED <<config, lastSet>>
       ELSE /\ config' = << [key |-> "targetUrl", val |-> url] >>
            /\ setResp' = 200
            /\ lastSet' = url
    /\ UNCHANGED <<now, logFile, req, variant, prunedAt,
                   convVars, truncVars, looseVars>>

\* the clock advances
Tick ==
    /\ variant # "off"
    /\ now < MaxTime
    /\ now' = now + 1
    /\ UNCHANGED <<logFile, req, config, variant, lastSet, setResp, cfgBefore,
                   prunedAt, convVars, truncVars, looseVars>>

Routes == {"qa", "prod"}
SetUrlBodies == {Undefined, Str(<<>>), Num(1), UrlNew, UrlQA}

\* request 0 is one handled before the server was last started
RelayInit(v, configs) ==
    /\ variant = v
    /\ now = 0
    /\ logFile \in {<<>>, <<[timestamp |-> 0, req |-> 0, error |-> Null]>>}
    /\ req = [r \in Reqs |-> IdleReq]
    /\ config \in configs
    /\ lastSet = Undefined
    /\ setResp = 0
    /\ cfgBefore = config
    /\ prunedAt = -1

EnvConfigs ==
    { << [key |-> "TARGET_URL_QA", val |-> UrlQA],
         [key |-> "TARGET_URL_PROD", val |-> UrlPROD] >>,
      << [key |-> "TARGET_URL_PROD", val |-> UrlPROD] >> }

FileConfigs ==
    { << [key |-> "targetUrlQA", val |-> UrlQA],
         [key |-> "targetUrlPROD", val |-> UrlPROD] >>,
      << [key |-> "targetUrl", val |-> UrlQA] >> }

NextRelay ==
    \/ \E r \in Reqs, route \in Routes : ReceiveConvertFails(r, route)
    \/ \E r \in Reqs, route \in Routes : ReceiveAndSend(r, route)
    \/ \E r \in Reqs, ok \in BOOLEAN : DeliverySettles(r, ok)
    \/ Tick

InitRelay == RelayInit("env", EnvConfigs) /\ ConvIdle /\ TruncIdle /\ LooseIdle
SpecRelay == InitRelay /\ [][NextRelay]_vars

NextRelayFile ==
    \/ NextRelay
    \/ \E url \in SetUrlBodies : SetUrl(url)

InitRelayFile == RelayInit("file", FileConfigs) /\ ConvIdle /\ TruncIdle /\ LooseIdle
SpecRelayFile == InitRelayFile /\ [][NextRelayFile]_vars

----------------------------------------------------------------------------
(* Properties of the relay *)

ConvertFailed(h) == h.error = ErrConvert
DeliverFailed(h) == h.error = ErrDeliver

Count(s, x) == Cardinality({i \in 1..Len(s) : s[i] = x})

\* C8: a request is converted exactly once, delivered at most once and only
\* after a successful conversion, logged exactly once after both and before
\* the response, and answered 500 exactly when one of the two steps failed.
C8_ConvertDeliverLog ==
    \A r \in Reqs :
        LET h == req[r] IN
        /\ h.pc = "idle" => h.trace = <<>>
        /\ h.pc = "awaiting" => h.trace = <<"convert", "deliver">>
        /\ h.pc = "done" =>
              /\ Count(h.trace, "convert") = 1
              /\ Count(h.trace, "log") = 1
              /\ h.trace = IF ConvertFailed(h)
                           THEN <<"convert", "log", "respond">>
                           ELSE <<"convert", "deliver", "log", "respond">>
              /\ h.status \in {200, 500}
              /\ h.status = 500 <=> (ConvertFailed(h) \/ DeliverFailed(h))

\* one request answered 500 after a failed delivery while another one,
\* received during that delivery, has been answered 200
C8_Witness ==
    \E r, q \in Reqs :
        /\ r < q
        /\ req[r].pc = "done" /\ DeliverFailed(req[r]) /\ req[r].status = 500
        /\ req[q].pc = "done" /\ req[q].status = 200
        /\ req[q].trace = <<"convert", "deliver", "log", "respond">>
        /\ logFile[Len(logFile)].req = r

\* requests whose handler has finished, with the one of the earlier run
\* when the file held its entry
Handled == {r \in Reqs : req[r].pc = "done"}
EntriesOf(r) == {i \in 1..Len(logFile) : logFile[i].req = r}

\* C9: right after an append-then-prune the log holds exactly one entry of
\* every handled request received at most a week before, and no entry older
\* than a week.  (The file only changes in that step, so the time of the
\* last one is the time the statement is about.)
C9_LogKeptOneWeek ==
    prunedAt >= 0 =>
        /\ \A r \in Handled :
              Cardinality(EntriesOf(r))
                 = IF req[r].receivedAt >= prunedAt - OneWeek THEN 1 ELSE 0
        /\ \A i \in 1..Len(logFile) :
              /\ logFile[i].timestamp >= prunedAt - OneWeek
              /\ logFile[i].req \in Handled \cup {0}
              /\ logFile[i].req \in Handled
                    => logFile[i].timestamp = req[logFile[i].req].receivedAt

\* a request received exactly one week before the prune that another
\* request ran keeps its entry, and the entry of the earlier run is gone
C9_Witness ==
    \E r, q \in Reqs :
        /\ r # q
        /\ req[r].pc = "done" /\ req[q].pc = "done"
        /\ req[r].receivedAt = prunedAt - OneWeek
        /\ req[q].receivedAt = prunedAt
        /\ logFile[Len(logFile)].req = q
        /\ Cardinality(EntriesOf(r)) = 1
        /\ EntriesOf(0) = {}

\* C10: once /set-url has answered ok for a url, every later /qa and /prod
\* request delivers to that url; a /set-url without a string url is answered
\* 400 and leaves the configuration file unchanged.
C10_SetUrlRedirects ==
    /\ \A r \in Reqs :
          (req[r].pc # "idle" /\ Count(req[r].trace, "deliver") = 1
             /\ req[r].setSeen # Undefined)
            => req[r].target = req[r].setSeen
    /\ setResp = 400 => config = cfgBefore

====
